---- MODULE Spec2Model ----
(***************************************************************************)
(* Model of platform/qt/src/sqlite3.cpp: the Qt backed implementation of   *)
(* mapbox::sqlite::Database, Statement and Transaction.                    *)
(*                                                                         *)
(* The QSqlDatabase / QSqlQuery objects are the backend.  Whether the      *)
(* backend accepts a call is an input of every action (accept), so every   *)
(* call can be rejected; the backend additionally rejects a statement on a *)
(* closed connection, a BEGIN inside a transaction and a COMMIT/ROLLBACK   *)
(* outside one.  Every Database registers its connection under Qt's        *)
(* default connection name, so a new one replaces the one before it.       *)
(***************************************************************************)
EXTENDS Integers, Sequences, FiniteSets, TLC

\* ------------------------------------------------------------------ bounds
NumDb == 2          \* Database objects of the program
NumTx == 2          \* Transaction objects of the program
MaxEndCalls == 2    \* commit()/rollback() calls made on one Transaction
MaxTimeoutCalls == 1 \* setBusyTimeout calls made on one connection handle
NumParams == 2      \* parameter positions of the Statement
MaxRows == 1        \* rows in the result of the Statement

DbIds == 1..NumDb
TxIds == 1..NumTx
NoHandle == 0       \* an empty std::unique_ptr<DatabaseImpl>

\* ------------------------------------------------------------- vocabulary
\* The open flags the code looks at, and the flag sets SpecConn opens with.
Flags == {"ReadOnly", "SharedCache"}
ConnFlags == {{}, Flags}
\* The timeouts (ms) a caller passes to setBusyTimeout; SpecConn and SpecTxn
\* pass the first one only, SpecOpts both.
Timeouts == {100, 200}
TxnTimeouts == {100}
Modes == {"Deferred", "Immediate", "Exclusive"}

\* Variant: a constructor that begins every transaction deferred.
BeginSqlDeferred(mode) == "BEGIN DEFERRED TRANSACTION"
\* Transaction::Transaction, switch (mode)
BeginSql(mode) ==
    CASE mode = "Deferred"  -> "BEGIN DEFERRED TRANSACTION"
      [] mode = "Immediate" -> "BEGIN IMMEDIATE TRANSACTION"
      [] mode = "Exclusive" -> "BEGIN EXCLUSIVE TRANSACTION"

\* Variant: a commit() that executes the rollback statement.
CommitSqlRollsBack == "ROLLBACK TRANSACTION"
\* Transaction::commit executes this statement.
CommitSql == "COMMIT TRANSACTION"
\* Transaction::rollback executes this statement.
RollbackSql == "ROLLBACK TRANSACTION"

\* The statements the caller executes: one that changes the schema only,
\* and inserts with the row each adds.
DdlSql == {"CREATE TABLE t (id INTEGER)"}
InsertSql == {"INSERT INTO t VALUES (1)"}
RowOf(sql) == CASE sql = "INSERT INTO t VALUES (1)" -> 1

IsBegin(sql) == \E m \in Modes : sql = BeginSql(m)
IsEnd(sql) == sql = "COMMIT TRANSACTION" \/ sql = "ROLLBACK TRANSACTION"

\* mbgl::util::toString(timeout.count())
toString(n) == IF n = 100 THEN "100" ELSE "200"

VARIABLES
    dbAlive,    \* dbAlive[d]: the Database object d exists
    impl,       \* impl[d]: the handle Database d owns, or NoHandle
    conn,       \* conn[h]: the DatabaseImpl h and its QSqlDatabase
    txn,        \* txn[t]: the Transaction object t
    lastOp,     \* the operation that ran last and how it ended
    stmt,       \* the Statement object and its QSqlQuery
    call        \* the Statement call that ran last and what it returned

vars == <<dbAlive, impl, conn, txn, lastOp, stmt, call>>
connVars == <<dbAlive, impl, conn, txn, lastOp>>
stmtVars == <<stmt, call>>

\* ----------------------------------------------------------- the backend
\* valid: the QSqlDatabase has its driver (QSqlDatabase::isValid).
NoConn ==
    [exists |-> FALSE, valid |-> FALSE, open |-> FALSE, opts |-> <<>>,
     timeout |-> "default", inTxn |-> FALSE, committed |-> {}, pending |-> {}]

\* The busy timeout the driver takes from the options: the last entry wins.
RECURSIVE TimeoutOf(_)
TimeoutOf(opts) ==
    IF Len(opts) < 2 THEN "default"
    ELSE IF opts[Len(opts) - 1] = "QSQLITE_BUSY_TIMEOUT=" THEN opts[Len(opts)]
    ELSE TimeoutOf(SubSeq(opts, 1, Len(opts) - 1))

\* QSqlDatabase::addDatabase("QSQLITE"): the connection is registered under
\* the default connection name.  A connection registered under that name
\* before is removed: the QSqlDatabase that refers to it loses its driver,
\* which closes it, and the engine rolls back what was pending.
AddDatabase(cs) ==
    [h \in DOMAIN cs |->
        IF cs[h].exists
        THEN [cs[h] EXCEPT !.valid = FALSE, !.open = FALSE, !.inTxn = FALSE,
                           !.pending = {}]
        ELSE cs[h]]

\* QSqlDatabase::open: a QSqlDatabase without its driver cannot be opened.
BackendOpen(c, accept) ==
    IF accept /\ c.valid
    THEN [c EXCEPT !.open = TRUE, !.timeout = TimeoutOf(c.opts)]
    ELSE [c EXCEPT !.open = FALSE]

\* QSqlDatabase::close: an open transaction is rolled back by the engine
BackendClose(c) ==
    [c EXCEPT !.open = FALSE, !.inTxn = FALSE, !.pending = {}]

\* Does the backend run the statement (no QSqlError)?
Accepts(c, sql, accept) ==
    /\ c.open
    /\ accept
    /\ IsBegin(sql) => ~c.inTxn
    /\ IsEnd(sql) => c.inTxn

\* The connection after the backend has run (or rejected) sql.
BackendExec(c, sql, accept) ==
    IF ~Accepts(c, sql, accept) THEN c
    ELSE IF IsBegin(sql) THEN [c EXCEPT !.inTxn = TRUE]
    ELSE IF sql = "COMMIT TRANSACTION"
        THEN [c EXCEPT !.inTxn = FALSE,
                       !.committed = c.committed \cup c.pending,
                       !.pending = {}]
    ELSE IF sql = "ROLLBACK TRANSACTION"
        THEN [c EXCEPT !.inTxn = FALSE, !.pending = {}]
    ELSE IF sql \notin InsertSql THEN c
    ELSE IF c.inTxn
        THEN [c EXCEPT !.pending = c.pending \cup ({RowOf(sql)} \ c.committed)]
    ELSE [c EXCEPT !.committed = c.committed \cup {RowOf(sql)}]

\* The rows a read on the connection sees.
Visible(c) == c.committed \cup c.pending

\* ------------------------------------------------- values and QVariant
\* A host value is [t, some, v]: its C++ type, whether it holds a value
\* (FALSE only for an empty optional) and the value.  Text and blobs are
\* byte sequences, a time_point is its count of seconds.
HV(t, v) == [t |-> t, some |-> TRUE, v |-> v]
None == [t |-> "none", some |-> FALSE, v |-> 0]

IsOptional(t) ==
    t \in {"optional<int64>", "optional<double>", "optional<string>",
           "optional<timestamp>"}

BaseOf(t) ==
    CASE t = "optional<int64>"     -> "int64"
      [] t = "optional<double>"    -> "double"
      [] t = "optional<string>"    -> "string"
      [] t = "optional<timestamp>" -> "timestamp"
      [] OTHER -> t

\* T(): the value-initialised T
Default(t) ==
    CASE t = "bool" -> FALSE
      [] t \in {"string", "blob", "QString"} -> <<>>
      [] OTHER -> 0

\* optional<T>()
Absent(t) == [t |-> t, some |-> FALSE, v |-> Default(BaseOf(t))]

\* The QMetaType of a C++ type.
MetaType(t) ==
    CASE t = "nullptr" -> "Nullptr"
      [] t = "int8"    -> "SChar"
      [] t = "int16"   -> "Short"
      [] t = "int32"   -> "Int"
      [] t = "int64"   -> "LongLong"
      [] t = "time_t"  -> "Long"
      [] t = "uint8"   -> "UChar"
      [] t = "uint16"  -> "UShort"
      [] t = "uint32"  -> "UInt"
      [] t = "double"  -> "Double"
      [] t = "bool"    -> "Bool"
      [] t = "QString" -> "QString"
      [] t = "blob"    -> "std::vector<uint8_t>"

NumericMeta ==
    {"SChar", "Short", "Int", "LongLong", "Long", "UChar", "UShort", "UInt",
     "Double", "Bool"}

\* QVariant()
Invalid == [type |-> "Invalid", val |-> 0]

\* QVariant::fromValue<T>(value)
FromValue(hv) == [type |-> MetaType(hv.t), val |-> hv.v]

\* QVariant::isNull
IsNull(qv) == qv.type \in {"Invalid", "Nullptr"}

\* static_cast between the arithmetic types (the model's values fit 32 bits)
Cast(qv, meta) ==
    LET n == IF qv.type = "Bool" THEN (IF qv.val THEN 1 ELSE 0) ELSE qv.val
    IN  CASE meta = "Bool"   -> n # 0
          [] meta = "SChar"  -> ((n + 128) % 256) - 128
          [] meta = "Short"  -> ((n + 32768) % 65536) - 32768
          [] meta = "UChar"  -> n % 256
          [] meta = "UShort" -> n % 65536
          [] OTHER -> n

\* QVariant::value<T>(): the stored value when the types agree, a converted
\* one between arithmetic types, else T().
ValueAs(qv, t) ==
    IF qv.type = MetaType(t) THEN qv.val
    ELSE IF qv.type \in NumericMeta /\ MetaType(t) \in NumericMeta
         THEN Cast(qv, MetaType(t))
    ELSE Default(t)

RECURSIVE Digits(_)
Digits(n) == IF n < 10 THEN <<48 + n>> ELSE Digits(n \div 10) \o <<48 + (n % 10)>>

\* QVariant::toString
QVariantToString(qv) ==
    CASE qv.type = "QString" -> qv.val
      [] qv.type = "Bool" ->
            IF qv.val THEN <<116, 114, 117, 101>> ELSE <<102, 97, 108, 115, 101>>
      [] qv.type \in NumericMeta \ {"Bool"} ->
            IF qv.val < 0 THEN <<45>> \o Digits(-qv.val) ELSE Digits(qv.val)
      [] OTHER -> <<>>

\* QString::fromStdString: UTF-8 to UTF-16; a byte that is no UTF-8 becomes
\* U+FFFD (the model's text is ASCII or a lone invalid byte)
fromStdString(bytes) ==
    [i \in 1..Len(bytes) |-> IF bytes[i] < 128 THEN bytes[i] ELSE 65533]

\* QString::toStdString: UTF-16 to UTF-8
RECURSIVE toStdString(_)
toStdString(units) ==
    IF units = <<>> THEN <<>>
    ELSE (IF Head(units) < 128 THEN <<Head(units)>> ELSE <<239, 191, 189>>)
         \o toStdString(Tail(units))

\* std::chrono::system_clock::to_time_t of a time_point in seconds
to_time_t(hv) == HV("time_t", hv.v)

\* time_point_cast<seconds>(system_clock::from_time_t(t))
from_time_t(secs) == HV("timestamp", secs)

\* The values the caller binds (a tuple: they are of different types).
BindValues ==
    <<HV("nullptr", 0),
     HV("int8", -128), HV("int16", -32768),
     HV("int32", 70000), HV("int64", 100000),
     HV("uint8", 255), HV("uint16", 65535), HV("uint32", 70001),
     HV("double", 3), HV("bool", TRUE),
     HV("string", <<97>>),
     HV("blob", <<0, 255>>),
     HV("timestamp", 1500000000),
     HV("optional<string>", <<97>>), Absent("optional<string>"),
     HV("optional<timestamp>", 1500000000), Absent("optional<timestamp>")>>

\* The types get<T> is defined for.
GetTypes ==
    {"int8", "int16", "int32", "int64", "uint8", "uint16", "uint32", "double",
     "bool", "blob", "timestamp", "string", "optional<int64>",
     "optional<double>", "optional<string>", "optional<timestamp>"}

\* A QSqlError: its type() (QSqlError::ErrorType: 0 NoError, 1
\* ConnectionError, 2 StatementError), the engine's native error code and
\* its text().
NoError == [type |-> 0, native |-> 0, text |-> <<>>]

\* The error the backend reports when it rejects a call: SQLITE_CANTOPEN (14)
\* "unable to open" as a ConnectionError for an open, SQLITE_BUSY (5)
\* "locked" as a StatementError for a statement.
BackendError(op) ==
    IF op \in {"open", "setBusyTimeout"}
    THEN [type |-> 1, native |-> 14,
          text |-> <<117, 110, 97, 98, 108, 101, 32, 116, 111, 32, 111, 112,
                     101, 110>>]
    ELSE [type |-> 2, native |-> 5, text |-> <<108, 111, 99, 107, 101, 100>>]

\* Exception { lastError.type(), lastError.text().toStdString() }
Exception(lastError) ==
    [code |-> lastError.type, message |-> toStdString(lastError.text)]

NoException == [code |-> 0, message |-> <<>>]

Params == 1..NumParams

SelectSql == "SELECT id FROM t WHERE id > ?"

\* The parameters the statement declares and the columns of its result, as
\* the backend compiles it.
ParamCount(sql) == IF sql = "SELECT id FROM t WHERE id > ?" THEN 1 ELSE 0
ColumnCount(sql) == IF sql = "SELECT id FROM t WHERE id > ?" THEN 1 ELSE 0

\* bound[i] is what QSqlQuery::boundValue(i) returns: bindValue(i, v) grows
\* the query's vector of values up to i and stores v, boundValue(i) of a
\* position beyond the vector is QVariant().  lastError is the QSqlError of
\* the query's last execution.
NoStmt ==
    [exists |-> FALSE, sql |-> "", bound |-> [i \in Params |-> Invalid],
     rows |-> 0, at |-> 0, runs |-> 0, lastError |-> NoError]

\* StatementImpl::checkError throws when the query holds an error:
\* if (lastError.type() != QSqlError::NoError) throw ...
checkError(q) == q.lastError.type # 0

\* What the last Statement call did: the position and value or type it was
\* given, the value it returned, for a get<T> the value that the call right
\* before it bound at the same position when get<T> is the read that goes
\* with that value's type (prev), and whether it raised.
Call(op, pos, type, arg, ret, prev, raised) ==
    [op |-> op, pos |-> pos, type |-> type, arg |-> arg, ret |-> ret,
     prev |-> prev, raised |-> raised]

NoCall == Call("none", 0, "none", None, None, None, FALSE)

\* ------------------------------------------------------------- the objects
NoTxn ==
    [state |-> "none", db |-> 1, needRollback |-> FALSE, calls |-> 0,
     endStmts |-> 0, committed |-> FALSE, durable |-> {}]

\* What the last operation did: the object it ran on, the handle it reached
\* and that handle's connection before it (pre), the statements it handed to
\* the backend, whether the backend reported an error (and which), whether
\* the operation ended with an exception (and which); mode is the Mode given
\* to the constructor of a Transaction.
Op(op, who, h, pre, issued, rejected, raised) ==
    [op |-> op, who |-> who, h |-> h, pre |-> pre, issued |-> issued,
     rejected |-> rejected, raised |-> raised, calls |-> 0, mode |-> "none",
     err |-> IF rejected THEN BackendError(op) ELSE NoError,
     exc |-> IF raised THEN Exception(BackendError(op)) ELSE NoException]

\* The same for the destruction of a Transaction, with the number of
\* commit()/rollback() calls that were made on it.
DtorOp(who, h, pre, issued, rejected, raised, calls) ==
    [Op("~Transaction", who, h, pre, issued, rejected, raised)
        EXCEPT !.calls = calls]

Init ==
    /\ dbAlive = [d \in DbIds |-> FALSE]
    /\ impl = [d \in DbIds |-> NoHandle]
    /\ conn = [h \in DbIds |-> NoConn]
    /\ txn = [t \in TxIds |-> NoTxn]
    /\ lastOp = Op("init", 0, NoHandle, NoConn, <<>>, FALSE, FALSE)
    /\ stmt = NoStmt
    /\ call = NoCall

FreeHandle == CHOOSE h \in DbIds : ~conn[h].exists

\* assert(impl) at the head of every Database operation
Usable(d) == dbAlive[d] /\ impl[d] # NoHandle

\* DatabaseImpl::DatabaseImpl builds the connect options from the flags.
ConnectOptions(flags) ==
    LET ro == IF "ReadOnly" \in flags THEN <<"QSQLITE_OPEN_READONLY">> ELSE <<>>
    IN  IF "SharedCache" \in flags
        THEN IF ro = <<>>
             THEN ro \o <<"QSQLITE_ENABLE_SHARED_CACHE">>
             ELSE ro \o <<";", "QSQLITE_ENABLE_SHARED_CACHE">>
        ELSE ro

\* Variant: a constructor that does not throw when db.open() fails.
OpenConstructsAlways(opened) == TRUE
\* DatabaseImpl::DatabaseImpl throws when db.open() fails: no object then.
OpenConstructs(opened) == opened

\* Database::Database(file, flags)
Open(d, flags, accept) ==
    /\ ~dbAlive[d]
    /\ LET h == FreeHandle
           c == BackendOpen([NoConn EXCEPT !.exists = TRUE, !.valid = TRUE,
                                           !.opts = ConnectOptions(flags)],
                            accept)
       IN  IF OpenConstructs(c.open)
           THEN /\ dbAlive' = [dbAlive EXCEPT ![d] = TRUE]
                /\ impl' = [impl EXCEPT ![d] = h]
                /\ conn' = [AddDatabase(conn) EXCEPT ![h] = c]
                /\ lastOp' = Op("open", d, h, NoConn, <<>>, ~c.open, ~c.open)
           ELSE /\ UNCHANGED <<dbAlive, impl>>
                /\ conn' = AddDatabase(conn)
                /\ lastOp' = Op("open", d, NoHandle, NoConn, <<>>, TRUE, TRUE)
    /\ UNCHANGED <<txn, stmtVars>>

\* Database::Database(Database&&)
DbMoveConstruct(d, src) ==
    /\ d # src
    /\ ~dbAlive[d]
    /\ dbAlive[src]
    /\ dbAlive' = [dbAlive EXCEPT ![d] = TRUE]
    /\ impl' = [impl EXCEPT ![d] = impl[src], ![src] = NoHandle]
    /\ lastOp' = Op("move", d, impl[src], NoConn, <<>>, FALSE, FALSE)
    /\ UNCHANGED <<conn, txn, stmtVars>>

\* Database::operator=(Database&&)
DbMoveAssign(d, src) ==
    /\ d # src
    /\ dbAlive[d]
    /\ dbAlive[src]
    /\ impl' = [impl EXCEPT ![d] = impl[src], ![src] = impl[d]]
    /\ lastOp' = Op("assign", d, impl[src], NoConn, <<>>, FALSE, FALSE)
    /\ UNCHANGED <<dbAlive, conn, txn, stmtVars>>

\* Database::~Database and, when it owns a handle, ~DatabaseImpl.  A
\* Transaction borrows its Database and is destroyed before it.
DbDestroy(d) ==
    /\ dbAlive[d]
    /\ \A t \in TxIds : txn[t].state = "live" => txn[t].db # d
    /\ dbAlive' = [dbAlive EXCEPT ![d] = FALSE]
    /\ impl' = [impl EXCEPT ![d] = NoHandle]
    /\ conn' = IF impl[d] = NoHandle THEN conn
               ELSE [conn EXCEPT ![impl[d]] = NoConn]
    /\ lastOp' = Op("~Database", d, impl[d], NoConn, <<>>, FALSE, FALSE)
    /\ UNCHANGED <<txn, stmtVars>>

TimeoutEntries(opts) ==
    Cardinality({i \in 1..Len(opts) : opts[i] = "QSQLITE_BUSY_TIMEOUT="})

\* QSqlDatabase::setConnectOptions: a QSqlDatabase without its driver keeps
\* the options it has.
SetConnectOptions(c, options) ==
    IF c.valid THEN [c EXCEPT !.opts = options] ELSE c

\* Database::setBusyTimeout
SetBusyTimeoutCall(d, timeout, accept) ==
    /\ Usable(d)
    /\ LET h == impl[d]
           c0 == conn[h]
           timeoutStr == toString(timeout)
           connectOptions ==
               IF c0.opts = <<>>
               THEN c0.opts \o <<"QSQLITE_BUSY_TIMEOUT=", timeoutStr>>
               ELSE c0.opts \o <<";", "QSQLITE_BUSY_TIMEOUT=", timeoutStr>>
           c1 == IF c0.open THEN BackendClose(c0) ELSE c0
           c2 == BackendOpen(SetConnectOptions(c1, connectOptions), accept)
       IN  /\ conn' = [conn EXCEPT ![h] = c2]
           /\ lastOp' = Op("setBusyTimeout", d, h, c0, <<>>, ~c2.open, ~c2.open)
    /\ UNCHANGED <<dbAlive, impl, txn, stmtVars>>

\* Database::setBusyTimeout, called at most MaxTimeoutCalls times on a handle
SetBusyTimeout(d, timeout, accept) ==
    /\ Usable(d)
    /\ TimeoutEntries(conn[impl[d]].opts) < MaxTimeoutCalls
    /\ SetBusyTimeoutCall(d, timeout, accept)

\* Variant: an exec that ignores the query's error.
ExecSwallows(rejected) == FALSE
\* Database::exec throws exactly when the query reports an error.
ExecThrows(rejected) == rejected

\* Database::exec(sql) issued by the caller
Exec(d, sql, accept) ==
    /\ Usable(d)
    /\ LET h == impl[d]
           rejected == ~Accepts(conn[h], sql, accept)
       IN  /\ conn' = [conn EXCEPT ![h] = BackendExec(conn[h], sql, accept)]
           /\ lastOp' = Op("exec", d, h, conn[h], <<sql>>, rejected,
                           ExecThrows(rejected))
    /\ UNCHANGED <<dbAlive, impl, txn, stmtVars>>

\* Database::prepare -> Statement::Statement -> StatementImpl: QSqlQuery(sql, db)
\* runs the statement at once, and checkError() throws what it reported.
Prepare(d, sql, accept) ==
    /\ Usable(d)
    /\ LET h == impl[d]
           rejected == ~Accepts(conn[h], sql, accept)
       IN  /\ conn' = [conn EXCEPT ![h] = BackendExec(conn[h], sql, accept)]
           /\ lastOp' = Op("prepare", d, h, conn[h], <<sql>>, rejected, rejected)
    /\ UNCHANGED <<dbAlive, impl, txn, stmtVars>>

\* bool needRollback = true (member initialiser of Transaction)
NeedRollbackInit == TRUE

\* Variant: a constructor that completes although db.exec threw.
TxnConstructsAlways(raised) == TRUE
\* An exception that leaves Transaction::Transaction means that no object
\* was constructed, so no destructor runs for it.
TxnConstructs(raised) == ~raised

\* Transaction::Transaction(db, mode)
TxnConstruct(t, d, mode, accept) ==
    /\ txn[t].state = "none"
    /\ Usable(d)
    /\ LET h == impl[d]
           sql == BeginSql(mode)
           rejected == ~Accepts(conn[h], sql, accept)
       IN  /\ conn' = [conn EXCEPT ![h] = BackendExec(conn[h], sql, accept)]
           /\ lastOp' = [Op("Transaction", t, h, conn[h], <<sql>>, rejected,
                            ExecThrows(rejected)) EXCEPT !.mode = mode]
           /\ txn' = IF ~TxnConstructs(ExecThrows(rejected)) THEN txn
                     ELSE [txn EXCEPT ![t] =
                             [state |-> "live", db |-> d,
                              needRollback |-> NeedRollbackInit,
                              calls |-> 0, endStmts |-> 0,
                              committed |-> FALSE, durable |-> {}]]
    /\ UNCHANGED <<dbAlive, impl, stmtVars>>

\* Variant: the flag is cleared after db.exec, so not when it throws.
ClearedAfterExec(needRollback, raised) == IF raised THEN needRollback ELSE FALSE
\* needRollback = false; db.exec(...): the flag is cleared first, whatever
\* becomes of the statement.
ClearedBeforeExec(needRollback, raised) == FALSE

\* The body shared by Transaction::commit and Transaction::rollback: the
\* flag is cleared, then the statement is executed.  calls and endStmts count
\* the calls made and the COMMIT/ROLLBACK statements they executed;
\* committed and durable record a commit() that succeeded and the rows that
\* were pending in the transaction it committed.
TxnEnd(op, t, sql, accept) ==
    /\ txn[t].state = "live"
    /\ txn[t].calls < MaxEndCalls
    /\ Usable(txn[t].db)
    /\ LET h == impl[txn[t].db]
           rejected == ~Accepts(conn[h], sql, accept)
       IN  /\ conn' = [conn EXCEPT ![h] = BackendExec(conn[h], sql, accept)]
           /\ lastOp' = Op(op, t, h, conn[h], <<sql>>, rejected,
                           ExecThrows(rejected))
           /\ txn' = [txn EXCEPT
                        ![t].needRollback =
                            ClearedBeforeExec(@, ExecThrows(rejected)),
                        ![t].calls = @ + 1,
                        ![t].endStmts = @ + 1,
                        ![t].committed = @ \/ (op = "commit" /\ ~rejected),
                        ![t].durable =
                            IF op = "commit" /\ ~rejected
                            THEN @ \cup conn[h].pending ELSE @]
    /\ UNCHANGED <<dbAlive, impl, stmtVars>>

\* Transaction::commit
TxnCommit(t, accept) == TxnEnd("commit", t, CommitSql, accept)

\* Transaction::rollback
TxnRollback(t, accept) == TxnEnd("rollback", t, RollbackSql, accept)

\* Variant: a destructor that rolls back whatever the flag says.
DtorRollsBackAlways(t) == TRUE
\* Transaction::~Transaction: if (needRollback) ...
DtorRollsBack(t) == txn[t].needRollback

\* Variant: a destructor without the try/catch.
DtorRethrows(rejected) == rejected
\* ... try { rollback(); } catch (...) {}: nothing leaves the destructor
DtorPropagates(rejected) == FALSE

\* Transaction::~Transaction.  The object is gone afterwards: only what its
\* commit() made durable is remembered.
TxnDestroy(t, accept) ==
    /\ txn[t].state = "live"
    /\ IF DtorRollsBack(t)
       THEN /\ Usable(txn[t].db)
            /\ LET h == impl[txn[t].db]
                   rejected == ~Accepts(conn[h], RollbackSql, accept)
               IN  /\ conn' = [conn EXCEPT ![h] =
                                 BackendExec(conn[h], RollbackSql, accept)]
                   /\ lastOp' = DtorOp(t, h, conn[h], <<RollbackSql>>, rejected,
                                       DtorPropagates(ExecThrows(rejected)),
                                       txn[t].calls)
       ELSE /\ LET h == impl[txn[t].db]
               IN  lastOp' = DtorOp(t, h,
                                   IF h = NoHandle THEN NoConn ELSE conn[h],
                                   <<>>, FALSE, FALSE, txn[t].calls)
            /\ UNCHANGED conn
    /\ txn' = [txn EXCEPT ![t] = [NoTxn EXCEPT !.state = "dead",
                                               !.committed = txn[t].committed,
                                               !.durable = txn[t].durable]]
    /\ UNCHANGED <<dbAlive, impl, stmtVars>>

\* ---------------------------------------------------------- Statement
\* Database::prepare -> Statement::Statement -> StatementImpl:
\* QSqlQuery(sql, db) runs the query,
\* checkError() throws what it reported.  rows is the size of the result.
StmtPrepare(d, rows, accept) ==
    /\ ~stmt.exists
    /\ Usable(d)
    /\ LET rejected == ~Accepts(conn[impl[d]], SelectSql, accept)
       IN  /\ stmt' = IF rejected THEN stmt
                      ELSE [NoStmt EXCEPT !.exists = TRUE, !.sql = SelectSql,
                                          !.rows = rows]
           /\ call' = Call("prepare", 0, "none", None, None, None, rejected)
    /\ UNCHANGED connVars

\* Statement::~Statement
StmtDestroy ==
    /\ stmt.exists
    /\ stmt' = NoStmt
    /\ call' = Call("~Statement", 0, "none", None, None, None, FALSE)
    /\ UNCHANGED connVars

\* template <typename T> Statement::bind(offset, value)
BindGeneric(bound, offset, hv) == [bound EXCEPT ![offset] = FromValue(hv)]

\* Statement::bind(int, const char*, std::size_t, bool) and
\* Statement::bind(int, const std::string&, bool): the value is not stored.
BindText(bound, offset, hv) == bound

\* Statement::bindBlob: the value is not stored.
BindBlob(bound, offset, hv) == bound

\* The bound values after the bind overload that the value's type selects.
Bind(bound, offset, hv) ==
    CASE hv.t = "timestamp" -> BindGeneric(bound, offset, to_time_t(hv))
      [] hv.t = "optional<timestamp>" ->
            IF hv.some THEN BindGeneric(bound, offset, to_time_t(hv))
            ELSE BindGeneric(bound, offset, HV("nullptr", 0))
      [] hv.t = "optional<string>" ->
            IF hv.some
            THEN BindGeneric(bound, offset, HV("QString", fromStdString(hv.v)))
            ELSE BindGeneric(bound, offset, HV("nullptr", 0))
      [] hv.t = "string" -> BindText(bound, offset, hv)
      [] hv.t = "blob" -> BindBlob(bound, offset, hv)
      [] OTHER -> BindGeneric(bound, offset, hv)

\* Statement::bind / Statement::bindBlob
StmtBind(offset, hv) ==
    /\ stmt.exists
    /\ stmt' = [stmt EXCEPT !.bound = Bind(stmt.bound, offset, hv)]
    /\ call' = Call("bind", offset, hv.t, hv, None, None,
                    hv.t \notin {"string", "blob"} /\ checkError(stmt))
    /\ UNCHANGED connVars

\* A std::size_t is 64 bits wide: four limbs of 16 bits, the highest first.
SizeT(d3, d2, d1, d0) == <<d3, d2, d1, d0>>

\* std::numeric_limits<int>::max() = 2147483647, converted to std::size_t
IntMax == SizeT(0, 0, 32767, 65535)

\* The lengths the caller passes with a pointer: 0, 1, 2147483647,
\* 2147483648 and 4294967296.
Lengths ==
    {SizeT(0, 0, 0, 0), SizeT(0, 0, 0, 1), IntMax, SizeT(0, 0, 32768, 0),
     SizeT(0, 1, 0, 0)}

\* a > b on std::size_t
RECURSIVE Greater(_, _)
Greater(a, b) ==
    IF a = <<>> THEN FALSE
    ELSE IF Head(a) # Head(b) THEN Head(a) > Head(b)
    ELSE Greater(Tail(a), Tail(b))

\* Variant: a length check that already rejects the limit itself.
TooLongFromLimit(length) == length = IntMax \/ Greater(length, IntMax)
\* if (length > std::numeric_limits<int>::max()) throw std::range_error(...)
TooLong(length) == Greater(length, IntMax)

\* Statement::bind(int offset, const char* value, std::size_t length, bool):
\* the length is checked, then the value is left where it is.
StmtBindText(offset, length) ==
    /\ stmt.exists
    /\ stmt' = IF TooLong(length) THEN stmt
               ELSE [stmt EXCEPT !.bound = BindText(@, offset, HV("string", <<>>))]
    /\ call' = Call("bindText", offset, "string", HV("length", length), None,
                    None, TooLong(length))
    /\ UNCHANGED connVars

\* Statement::bindBlob(int offset, const void* value, std::size_t length, bool)
StmtBindBlob(offset, length) ==
    /\ stmt.exists
    /\ stmt' = IF TooLong(length) THEN stmt
               ELSE [stmt EXCEPT !.bound = BindBlob(@, offset, HV("blob", <<>>))]
    /\ call' = Call("bindBlob", offset, "blob", HV("length", length), None,
                    None, TooLong(length))
    /\ UNCHANGED connVars

\* Statement::get<T> applied to the QVariant that boundValue(offset) returns
Get(t, qv) ==
    CASE t = "timestamp" -> from_time_t(ValueAs(qv, "time_t"))
      [] t = "optional<timestamp>" ->
            IF IsNull(qv) THEN Absent(t)
            ELSE [t |-> t, some |-> TRUE, v |-> from_time_t(ValueAs(qv, "time_t")).v]
      [] t = "optional<int64>" ->
            IF IsNull(qv) THEN Absent(t)
            ELSE [t |-> t, some |-> TRUE, v |-> ValueAs(qv, "int64")]
      [] t = "optional<double>" ->
            IF IsNull(qv) THEN Absent(t)
            ELSE [t |-> t, some |-> TRUE, v |-> ValueAs(qv, "double")]
      [] t = "string" -> HV(t, toStdString(QVariantToString(qv)))
      [] t = "optional<string>" ->
            IF IsNull(qv) THEN Absent(t)
            ELSE [t |-> t, some |-> TRUE, v |-> toStdString(QVariantToString(qv))]
      [] OTHER -> HV(t, ValueAs(qv, t))

\* get<t> is a read that goes with a bound value hv: the value's own type,
\* or the optional of it, or any optional for a null.
Matches(hv, t) ==
    \/ hv.t = t
    \/ IsOptional(t) /\ hv.t \in {BaseOf(t), "nullptr"}

\* The value equal to hv in the type t.
Expected(hv, t) ==
    IF hv.t = t THEN hv
    ELSE IF hv.t = "nullptr" THEN Absent(t)
    ELSE [t |-> t, some |-> TRUE, v |-> hv.v]

\* Statement::get<T>(offset)
StmtGet(t, offset) ==
    /\ stmt.exists
    /\ call' = IF checkError(stmt)
               THEN Call("get", offset, t, None, None, None, TRUE)
               ELSE Call("get", offset, t, None, Get(t, stmt.bound[offset]),
                         IF call.op = "bind" /\ call.pos = offset
                            /\ Matches(call.arg, t)
                         THEN call.arg ELSE None,
                         FALSE)
    /\ UNCHANGED <<connVars, stmt>>

\* Statement::run: returns false, the query is not advanced.
StmtRun ==
    /\ stmt.exists
    /\ stmt.runs < MaxRows + 2
    /\ stmt' = [stmt EXCEPT !.runs = @ + 1]
    /\ call' = Call("run", 0, "none", None, HV("bool", FALSE), None, FALSE)
    /\ UNCHANGED connVars

\* QSqlQuery::clear: the query becomes a fresh one on the same driver.
QueryClear(q) == [NoStmt EXCEPT !.exists = q.exists]

\* Statement::reset
StmtReset ==
    /\ stmt.exists
    /\ stmt' = QueryClear(stmt)
    /\ call' = Call("reset", 0, "none", None, None, None, FALSE)
    /\ UNCHANGED connVars

\* Statement::clearBindings
StmtClearBindings ==
    /\ stmt.exists
    /\ stmt' = QueryClear(stmt)
    /\ call' = Call("clearBindings", 0, "none", None, None, None, FALSE)
    /\ UNCHANGED connVars

\* ---------------------------------------------------- the specifications
\* SpecConn: the life of Database objects and their handles.
NextConn ==
    \/ \E d \in DbIds, f \in ConnFlags, a \in BOOLEAN : Open(d, f, a)
    \/ \E d, s \in DbIds : DbMoveConstruct(d, s)
    \/ \E d, s \in DbIds : DbMoveAssign(d, s)
    \/ \E d \in DbIds : DbDestroy(d)
    \/ \E d \in DbIds, ms \in TxnTimeouts, a \in BOOLEAN : SetBusyTimeout(d, ms, a)
    \/ \E d \in DbIds, sql \in DdlSql, a \in BOOLEAN : Exec(d, sql, a)
    \/ \E d \in DbIds, sql \in DdlSql, a \in BOOLEAN : Prepare(d, sql, a)

SpecConn == Init /\ [][NextConn]_vars

\* SpecTxn: Transactions on one Database that was opened read-write and
\* outlives them.
TxnDb == 1

InitTxn ==
    /\ dbAlive = [d \in DbIds |-> d = TxnDb]
    /\ impl = [d \in DbIds |-> IF d = TxnDb THEN TxnDb ELSE NoHandle]
    /\ conn = [h \in DbIds |->
                 IF h = TxnDb
                 THEN BackendOpen([NoConn EXCEPT !.exists = TRUE,
                                                 !.valid = TRUE,
                                                 !.opts = ConnectOptions({})],
                                  TRUE)
                 ELSE NoConn]
    /\ txn = [t \in TxIds |-> NoTxn]
    /\ lastOp = Op("open", TxnDb, TxnDb, NoConn, <<>>, FALSE, FALSE)
    /\ stmt = NoStmt
    /\ call = NoCall

NextTxn ==
    \/ \E ms \in TxnTimeouts, a \in BOOLEAN : SetBusyTimeout(TxnDb, ms, a)
    \/ \E sql \in InsertSql, a \in BOOLEAN : Exec(TxnDb, sql, a)
    \/ \E sql \in InsertSql, a \in BOOLEAN : Prepare(TxnDb, sql, a)
    \/ \E t \in TxIds, m \in Modes, a \in BOOLEAN : TxnConstruct(t, TxnDb, m, a)
    \/ \E t \in TxIds, a \in BOOLEAN : TxnCommit(t, a)
    \/ \E t \in TxIds, a \in BOOLEAN : TxnRollback(t, a)
    \/ \E t \in TxIds, a \in BOOLEAN : TxnDestroy(t, a)

SpecTxn == InitTxn /\ [][NextTxn]_vars

\* SpecStmt: one Statement on that Database.
NextStmt ==
    \/ \E n \in 0..MaxRows, a \in BOOLEAN : StmtPrepare(TxnDb, n, a)
    \/ StmtDestroy
    \/ \E i \in Params, k \in DOMAIN BindValues : StmtBind(i, BindValues[k])
    \/ \E t \in GetTypes, i \in Params : StmtGet(t, i)
    \/ StmtRun
    \/ StmtReset
    \/ StmtClearBindings

SpecStmt == InitTxn /\ [][NextStmt]_vars

\* SpecLen: the pointer and length overloads of bind on a Statement that
\* has values bound (an int32 and an optional<string>).
LenBindValues == {4, 14}

NextLen ==
    \/ \E n \in 0..MaxRows, a \in BOOLEAN : StmtPrepare(TxnDb, n, a)
    \/ StmtDestroy
    \/ \E i \in Params, k \in LenBindValues : StmtBind(i, BindValues[k])
    \/ \E i \in Params, n \in Lengths : StmtBindText(i, n)
    \/ \E i \in Params, n \in Lengths : StmtBindBlob(i, n)

SpecLen == InitTxn /\ [][NextLen]_vars

\* SpecOpts: the connect options of the Databases, opened with any of the
\* flag sets and given up to MaxOptCalls timeouts each.
MaxOptCalls == 2

NextOpts ==
    \/ \E d \in DbIds, f \in SUBSET Flags, a \in BOOLEAN : Open(d, f, a)
    \/ \E d \in DbIds, ms \in Timeouts, a \in BOOLEAN :
          /\ Usable(d)
          /\ TimeoutEntries(conn[impl[d]].opts) < MaxOptCalls
          /\ SetBusyTimeoutCall(d, ms, a)
    \/ \E d \in DbIds : DbDestroy(d)

SpecOpts == Init /\ [][NextOpts]_vars

\* ------------------------------------------------------------ the claims
\* C1 (as amended): destroying a Transaction issues "ROLLBACK TRANSACTION"
\* exactly when neither commit() nor rollback() was called on it before, and
\* it issues nothing else; when the backend accepts that ROLLBACK, the rows
\* that were pending in the open transaction are not visible afterwards and
\* no transaction is open.
C1_DtorRollsBackIffUntouched ==
    lastOp.op = "~Transaction" =>
        /\ (lastOp.issued = <<RollbackSql>>) <=> (lastOp.calls = 0)
        /\ lastOp.issued \in {<<>>, <<RollbackSql>>}
        /\ (lastOp.issued = <<RollbackSql>> /\ ~lastOp.rejected) =>
              /\ lastOp.pre.pending \cap Visible(conn[lastOp.h]) = {}
              /\ ~conn[lastOp.h].inTxn

\* C1 witness: an untouched Transaction with pending rows was destroyed and
\* its ROLLBACK was accepted.
C1_Witness ==
    /\ lastOp.op = "~Transaction"
    /\ lastOp.calls = 0
    /\ lastOp.issued = <<RollbackSql>>
    /\ ~lastOp.rejected
    /\ lastOp.pre.pending # {}

\* C1 as stated: on top of the equivalence, the rows inserted in a
\* transaction that was never committed or rolled back explicitly are not
\* visible once the Transaction is destroyed.
C1_Original ==
    lastOp.op = "~Transaction" =>
        /\ (lastOp.issued = <<RollbackSql>>) <=> (lastOp.calls = 0)
        /\ lastOp.calls = 0 =>
              lastOp.pre.pending \cap Visible(conn[lastOp.h]) = {}

\* C2: destroying a Transaction never ends with an exception, also when the
\* backend rejects its ROLLBACK; every other operation that the backend
\* rejects ends with an exception.
C2_OnlyDtorDiscards ==
    /\ lastOp.op = "~Transaction" => ~lastOp.raised
    /\ lastOp.op \in {"exec", "prepare", "commit", "rollback", "Transaction",
                      "setBusyTimeout", "open"} =>
          (lastOp.rejected => lastOp.raised)

\* C2 witness: the destructor's ROLLBACK was rejected and nothing was raised.
C2_Witness ==
    /\ lastOp.op = "~Transaction"
    /\ lastOp.issued = <<RollbackSql>>
    /\ lastOp.rejected
    /\ ~lastOp.raised

\* C3: the rows pending in the transaction that a successful commit()
\* committed are in the store and visible on the connection from then on,
\* also after the Transaction is destroyed; destroying a Transaction whose
\* commit() succeeded hands no statement to the backend.
C3_CommitIsDurable ==
    /\ \A t \in TxIds :
          /\ txn[t].durable \subseteq conn[TxnDb].committed
          /\ txn[t].durable \subseteq Visible(conn[TxnDb])
    /\ (lastOp.op = "commit" /\ ~lastOp.rejected) =>
          /\ lastOp.pre.pending \subseteq conn[lastOp.h].committed
          /\ lastOp.issued = <<"COMMIT TRANSACTION">>
    /\ (lastOp.op = "~Transaction" /\ txn[lastOp.who].committed) =>
          /\ lastOp.issued = <<>>
          /\ conn[lastOp.h] = lastOp.pre

\* C3 witness: a Transaction that committed rows has been destroyed.
C3_Witness ==
    /\ lastOp.op = "~Transaction"
    /\ txn[lastOp.who].state = "dead"
    /\ txn[lastOp.who].committed
    /\ txn[lastOp.who].durable # {}

\* C4 as stated: over all the commit()/rollback() calls made on one
\* Transaction at most one COMMIT or ROLLBACK statement is executed.
C4_AtMostOneEndStatement ==
    \A t \in TxIds : txn[t].endStmts <= 1

\* C5: a commit() or rollback() whose statement the backend rejects ends
\* with an exception, after handing that one statement to the backend once.
C5_RejectedEndPropagates ==
    /\ lastOp.op = "commit" =>
          /\ lastOp.issued = <<"COMMIT TRANSACTION">>
          /\ lastOp.raised <=> lastOp.rejected
    /\ lastOp.op = "rollback" =>
          /\ lastOp.issued = <<"ROLLBACK TRANSACTION">>
          /\ lastOp.raised <=> lastOp.rejected

\* C5 witness: the backend rejected the COMMIT of an open transaction and
\* commit() raised.
C5_Witness ==
    /\ lastOp.op = "commit"
    /\ lastOp.pre.open
    /\ lastOp.pre.inTxn
    /\ lastOp.rejected
    /\ lastOp.raised

\* C6 as stated: setBusyTimeout on an open connection either succeeds with
\* the connection open under the new timeout, or fails with the connection
\* still open under the connect options it had before.
C6_SetBusyTimeoutAtomic ==
    (lastOp.op = "setBusyTimeout" /\ lastOp.pre.open) =>
        \/ /\ ~lastOp.raised
           /\ conn[lastOp.h].open
           /\ conn[lastOp.h].timeout = conn[lastOp.h].opts[Len(conn[lastOp.h].opts)]
        \/ /\ lastOp.raised
           /\ conn[lastOp.h].open
           /\ conn[lastOp.h].opts = lastOp.pre.opts
           /\ conn[lastOp.h].timeout = lastOp.pre.timeout

\* C7 as stated: every Database object either holds no handle or holds a
\* handle whose backend database is open.
C7_OpenOrClosed ==
    \A d \in DbIds :
        dbAlive[d] => (impl[d] = NoHandle \/ conn[impl[d]].open)

\* C8: an open that the backend rejects ends with an exception and
\* constructs no Database: the object does not exist and owns no handle,
\* every handle that exists is owned by a Database that was constructed, and
\* an exec, prepare or setBusyTimeout that succeeded went through such an
\* object to an open handle.
C8_FailedOpenLeavesNothing ==
    /\ (lastOp.op = "open" /\ lastOp.rejected) =>
          /\ lastOp.raised
          /\ ~dbAlive[lastOp.who]
          /\ impl[lastOp.who] = NoHandle
    /\ \A h \in DbIds :
          conn[h].exists => \E d \in DbIds : dbAlive[d] /\ impl[d] = h
    /\ (lastOp.op \in {"exec", "prepare", "setBusyTimeout"} /\ ~lastOp.raised) =>
          /\ dbAlive[lastOp.who]
          /\ impl[lastOp.who] = lastOp.h
          /\ conn[lastOp.h].open

\* C8 witness: the backend rejected an open while another Database is in use.
C8_Witness ==
    /\ lastOp.op = "open"
    /\ lastOp.rejected
    /\ lastOp.raised
    /\ \E d \in DbIds : d # lastOp.who /\ Usable(d)

\* C9 as stated: on a statement whose result has n rows, the k-th run()
\* returns true exactly when k <= n.
C9_RunOncePerRow ==
    call.op = "run" => (call.ret.v <=> (stmt.runs <= stmt.rows))

\* C10 as stated: a get<T>(i) that follows bind(i, v) returns v, for every
\* supported type, text and blobs included, and an absent optional or a null
\* reads back as an absent optional.
C10_BindGetRoundTrip ==
    (call.op = "get" /\ call.prev.t # "none") =>
        call.ret = Expected(call.prev, call.type)

\* C11: a bind of text or of a blob whose length is above 2147483647 ends
\* with an exception and leaves every bound value of the statement as it
\* was; a length of at most 2147483647 is not rejected.
C11_TooLongRejected ==
    [][call'.op \in {"bindText", "bindBlob"} =>
          /\ call'.raised <=>
                \/ call'.arg.v[1] # 0
                \/ call'.arg.v[2] # 0
                \/ call'.arg.v[3] >= 32768
          /\ call'.raised => (stmt'.bound = stmt.bound /\ stmt' = stmt)]_vars

\* C11 witness: a too long text was rejected on a statement with a bound
\* value.
C11_Witness ==
    /\ call.op = "bindText"
    /\ call.arg.v = <<0, 0, 32768, 0>>
    /\ call.raised
    /\ \E i \in Params : stmt.bound[i] # Invalid

\* C12 as stated: reset() rewinds the statement and nothing more: the values
\* bound before it are bound at the same positions after it, the SQL text is
\* the same and the statement can be run again from the first row of its
\* result.
C12_ResetKeepsBindings ==
    [][call'.op = "reset" =>
          /\ stmt'.bound = stmt.bound
          /\ stmt'.sql = stmt.sql
          /\ stmt'.rows = stmt.rows
          /\ stmt'.runs = 0]_vars

\* C13 as stated: a bind at a position beyond the parameters the statement
\* declares, and a get<T> at a position beyond the columns of its result, end
\* with an exception.
C13_OutOfRangeFails ==
    /\ (call.op = "bind" /\ stmt.sql = SelectSql
            /\ call.pos > ParamCount(stmt.sql)) => call.raised
    /\ (call.op = "get" /\ stmt.sql = SelectSql
            /\ call.pos > ColumnCount(stmt.sql)) => call.raised

\* C14: constructing a Transaction on a connection that has a transaction
\* open ends with an exception from the constructor after the one BEGIN the
\* backend rejected; no Transaction object results from it (so no destructor
\* can roll back), and the connection, with its open transaction and the
\* rows pending in it, is as it was.
C14_OneActiveTransaction ==
    (lastOp.op = "Transaction" /\ lastOp.pre.inTxn) =>
        /\ lastOp.rejected
        /\ lastOp.raised
        /\ Len(lastOp.issued) = 1
        /\ lastOp.issued[1] \notin {"ROLLBACK TRANSACTION", "COMMIT TRANSACTION"}
        /\ txn[lastOp.who].state = "none"
        /\ conn[lastOp.h] = lastOp.pre
        /\ conn[lastOp.h].inTxn

\* C14 witness: a second Transaction was refused while the first one is
\* live with a row pending.
C14_Witness ==
    /\ lastOp.op = "Transaction"
    /\ lastOp.raised
    /\ lastOp.pre.inTxn
    /\ conn[lastOp.h].pending # {}
    /\ \E t \in TxIds : t # lastOp.who /\ txn[t].state = "live"
                          /\ txn[t].needRollback

\* C15 as stated, for the Database objects: every handle has exactly one
\* owner, a Database that does not exist owns nothing, and the backend
\* connection of a handle is released with its owner and not before.
C15_ScopedOwnership ==
    /\ \A h \in DbIds :
          conn[h].exists =>
              Cardinality({d \in DbIds : dbAlive[d] /\ impl[d] = h}) = 1
    /\ \A d \in DbIds : ~dbAlive[d] => impl[d] = NoHandle
    /\ \A d \in DbIds : impl[d] # NoHandle => conn[impl[d]].exists
    /\ \A h \in DbIds : conn[h].exists => conn[h].valid

\* C16: constructing a Transaction in a mode hands exactly one statement to
\* the backend, the BEGIN of that mode; when the backend accepts it the
\* Transaction exists with needRollback set and no COMMIT or ROLLBACK
\* executed yet; when the backend rejects it the constructor ends with an
\* exception and leaves no Transaction object, and a commit(), a rollback()
\* or a destruction only ever runs on an object that was constructed.
C16_BeginMatchesMode ==
    /\ lastOp.op \in {"commit", "rollback", "~Transaction"} =>
          txn[lastOp.who].state \in {"live", "dead"}
    /\ lastOp.op = "Transaction" =>
          /\ lastOp.issued =
                <<CASE lastOp.mode = "Deferred"  -> "BEGIN DEFERRED TRANSACTION"
                    [] lastOp.mode = "Immediate" -> "BEGIN IMMEDIATE TRANSACTION"
                    [] lastOp.mode = "Exclusive" -> "BEGIN EXCLUSIVE TRANSACTION">>
          /\ lastOp.raised <=> lastOp.rejected
          /\ ~lastOp.raised =>
                /\ txn[lastOp.who].state = "live"
                /\ txn[lastOp.who].needRollback
                /\ txn[lastOp.who].calls = 0
                /\ txn[lastOp.who].endStmts = 0
                /\ conn[lastOp.h].inTxn
          /\ lastOp.raised =>
                /\ txn[lastOp.who].state = "none"
                /\ conn[lastOp.h] = lastOp.pre

\* C16 witness: an exclusive Transaction was begun and is live with its
\* flag set.
C16_Witness ==
    /\ lastOp.op = "Transaction"
    /\ lastOp.mode = "Exclusive"
    /\ lastOp.issued = <<"BEGIN EXCLUSIVE TRANSACTION">>
    /\ ~lastOp.raised
    /\ txn[lastOp.who].state = "live"
    /\ txn[lastOp.who].needRollback

\* C17 as stated: clearBindings() leaves every position without a value and
\* changes nothing else: the SQL text, the result and the place in it are
\* the same and the Statement still exists.
C17_ClearBindingsOnly ==
    [][call'.op = "clearBindings" =>
          /\ \A i \in Params : stmt'.bound[i] = Invalid
          /\ stmt'.exists
          /\ stmt'.sql = stmt.sql
          /\ stmt'.rows = stmt.rows
          /\ stmt'.runs = stmt.runs]_vars

\* C18 as stated, for open, setBusyTimeout, exec and prepare: the operation
\* ends with an exception exactly when the backend reported an error, and
\* the exception carries the native code and the text of that error.
C18_ErrorsCarryCodeAndMessage ==
    lastOp.op \in {"open", "setBusyTimeout", "exec", "prepare"} =>
        /\ lastOp.raised <=> lastOp.rejected
        /\ lastOp.raised =>
              /\ lastOp.exc.code = lastOp.err.native
              /\ lastOp.exc.message = lastOp.err.text

\* The connect options as a semicolon joined list: no semicolon first or
\* last and no two in a row.
WellFormed(opts) ==
    \/ opts = <<>>
    \/ /\ opts[1] # ";"
       /\ opts[Len(opts)] # ";"
       /\ \A i \in 1..(Len(opts) - 1) : ~(opts[i] = ";" /\ opts[i + 1] = ";")

\* The open flags named in the options.
FlagsIn(opts) ==
    {f \in {"ReadOnly", "SharedCache"} :
        \E i \in 1..Len(opts) :
            \/ f = "ReadOnly" /\ opts[i] = "QSQLITE_OPEN_READONLY"
            \/ f = "SharedCache" /\ opts[i] = "QSQLITE_ENABLE_SHARED_CACHE"}

\* The values of the timeout entries of the options, in their order.
RECURSIVE TimeoutsIn(_)
TimeoutsIn(opts) ==
    IF Len(opts) < 2 THEN <<>>
    ELSE IF opts[1] = "QSQLITE_BUSY_TIMEOUT="
         THEN <<opts[2]>> \o TimeoutsIn(SubSeq(opts, 3, Len(opts)))
    ELSE TimeoutsIn(Tail(opts))

\* C19 as stated: the connect options of every handle are a well formed
\* list at all times; an open sets them to the options of its flags and
\* nothing else, none for no flag; a setBusyTimeout call, failed or not,
\* keeps the flags and the timeout entries there were and appends one entry
\* with its timeout.
C19_ConnectOptionsWellFormed ==
    /\ [](\A h \in DbIds : WellFormed(conn[h].opts))
    /\ [][\A d \in DbIds, f \in SUBSET Flags :
            (Open(d, f, TRUE) /\ impl'[d] # NoHandle) =>
               LET opts == conn'[impl'[d]].opts
               IN  /\ f = {} => opts = <<>>
                   /\ FlagsIn(opts) = f
                   /\ TimeoutsIn(opts) = <<>>
                   /\ Len(opts) = IF f = {} THEN 0 ELSE 2 * Cardinality(f) - 1]_vars
    /\ [][\A d \in DbIds, ms \in Timeouts, a \in BOOLEAN :
            SetBusyTimeoutCall(d, ms, a) =>
               LET old == conn[impl[d]].opts
                   new == conn'[impl[d]].opts
               IN  /\ FlagsIn(new) = FlagsIn(old)
                   /\ TimeoutsIn(new) =
                         TimeoutsIn(old) \o <<IF ms = 100 THEN "100" ELSE "200">>
                   /\ SubSeq(new, 1, Len(old)) = old
                   /\ Len(new) = Len(old) + (IF old = <<>> THEN 2 ELSE 3)]_vars

\* C20: after a commit() or a rollback(), also one that ended with an
\* exception, the needRollback flag of the Transaction is clear, and
\* destroying a Transaction on which one was called hands no statement to
\* the backend and leaves the connection as it is.
C20_FlagClearedBeforeExec ==
    /\ lastOp.op \in {"commit", "rollback"} => ~txn[lastOp.who].needRollback
    /\ (lastOp.op = "~Transaction" /\ lastOp.calls > 0) =>
          /\ lastOp.issued = <<>>
          /\ ~lastOp.raised
          /\ conn[lastOp.h] = lastOp.pre

\* C20 witness: the only Transaction there was has been destroyed after its
\* one commit() or rollback() failed: no ROLLBACK was issued and the
\* transaction is still open on the connection with its row pending.
C20_Witness ==
    /\ lastOp.op = "~Transaction"
    /\ lastOp.calls = 1
    /\ lastOp.issued = <<>>
    /\ \A t \in TxIds : t = lastOp.who \/ txn[t].state = "none"
    /\ conn[lastOp.h].inTxn
    /\ conn[lastOp.h].pending # {}
====
